---- MODULE Spec2Model ----
(***************************************************************************)
(* KirkGolfGame: the physics stepper, the per-frame sub-step loop and the  *)
(* game-phase machine of src/App.tsx and src/services/physicsEngine.ts.    *)
(*                                                                         *)
(* Numbers.  The program computes in IEEE doubles; the model computes in   *)
(* fixed point.  Lengths and speeds are in 1/Scale of a tile (mm, mm/s),   *)
(* coefficients in 1/Scale (per mille), physics time in 1/TimeScale of a   *)
(* second, wall-clock time in milliseconds.  Every product is rounded to   *)
(* the nearest unit (RoundDiv), Math.round and Math.sqrt are computed on   *)
(* the scaled integers (MathRound, ISqrt).                                 *)
(*                                                                         *)
(* React.  A handler and the render it causes are one step.  The "Phase    *)
(* Transition Logic" effect runs after every commit whose state it reads   *)
(* has changed, before the next event is handled, so every action applies  *)
(* PhaseTransitionEffect to the state its handler produced.                *)
(*                                                                         *)
(* Time.  Wall-clock time advances in quanta of TickMs (Advance).  An      *)
(* animation frame needs a later timestamp than the frame before it; a     *)
(* timer fires when its delay has run out.  User commands take no time.    *)
(***************************************************************************)
EXTENDS Integers, Sequences, FiniteSets, TLC

\* ------------------------------------------------------------ fixed point

\* Units per tile / per metre-per-second / per unit coefficient.
Scale == 1000
\* Physics time units per second.
TimeScale == 8000

Abs(a) == IF a < 0 THEN -a ELSE a

\* a / b rounded to the nearest integer, halves away from zero.
RoundDiv(a, b) ==
    IF a < 0 THEN -((2 * (-a) + b) \div (2 * b)) ELSE (2 * a + b) \div (2 * b)

\* a * c for a coefficient c given in 1/Scale.
Mul(a, c) == RoundDiv(a * c, Scale)

RECURSIVE ISqrtIter(_, _, _)
ISqrtIter(n, lo, hi) ==
    IF lo >= hi THEN lo
    ELSE LET mid == (lo + hi + 1) \div 2
         IN  IF mid * mid <= n THEN ISqrtIter(n, mid, hi)
                               ELSE ISqrtIter(n, lo, mid - 1)

\* Math.sqrt on scaled integers: the integer part of the square root.
ISqrt(n) == ISqrtIter(n, 0, 46340)

\* Math.round of a scaled coordinate, as a tile index (halves round up).
MathRound(p) == (p + Scale \div 2) \div Scale

\* ------------------------------------------------------------- constants

\* PHYSICS_CONFIG (src/constants.ts), scaled by Scale.
gravity == 35000
dragAir == 800
frictionGround == 400
frictionSand == 8000
frictionGreen == 150
frictionGravel == 5000
frictionRough == 800
restitution == 400
minVelocityToStop == 200

STARTING_LIVES == 5
SUB_STEPS == 8
\* Math.min(..., 0.1) of updatePhysics, in ms.
MaxDeltaMs == 100
\* setTimeout(resetBall, 1000), in ms.
RecoveryDelayMs == 1000

\* ---------------------------------------------------------------- vectors

Vec(x, y, z) == [x |-> x, y |-> y, z |-> z]
ZeroVec == Vec(0, 0, 0)

addVectors(v1, v2) == Vec(v1.x + v2.x, v1.y + v2.y, v1.z + v2.z)

\* scaleVector(v, dt) for a time dt in 1/TimeScale s.
scaleVector(v, dt) ==
    Vec(RoundDiv(v.x * dt, TimeScale), RoundDiv(v.y * dt, TimeScale),
        RoundDiv(v.z * dt, TimeScale))

magnitude(v) == ISqrt(v.x * v.x + v.y * v.y + v.z * v.z)

\* ------------------------------------------------------------------ level

\* generateLevel: const size = 32.
size == 32
\* generateLevel: const margin = 4 (start and hole lie in margin..size-margin-1).
margin == 4

\* The level generateLevel returns (CONTINENT map, MEADOW biome, no tree or
\* rock drawn): a fairway three tiles wide from the start to the hole twenty
\* tiles further along x, rough around it, water on the two outer rings of
\* the grid and in a lake from z = 8 on.
Levels == {"A"}

\* The cells <<x, z>> of level lv that hold a TREE.
treeTiles(lv) == {}

\* A level generateLevel returns when it places rocks: level "A" with a rock
\* on the rough at (10, 6) and one of its cluster next to it at (11, 6).
RockyLevels == {"R"}

\* The cells <<x, z>> of level lv that hold an OBSTACLE.
rockTiles(lv) == IF lv \in RockyLevels THEN {<<10, 6>>, <<11, 6>>} ELSE {}

\* heightMap of a rock (0.5) and of a rock of its cluster (0.4).
rockHeight(x, z) == IF x = 10 THEN 500 ELSE 400

startZ(lv) == IF lv \in {"A"} \cup RockyLevels THEN margin ELSE size - margin - 1
startX(lv) == margin
endX(lv) == margin + 20
endZ(lv) == startZ(lv)

\* level.startPosition: y = 0.15.
startPosition(lv) == Vec(startX(lv) * Scale, 150, startZ(lv) * Scale)
\* level.holePosition.
holePosition(lv) == Vec(endX(lv) * Scale, 0, endZ(lv) * Scale)

NoTile == [present |-> FALSE, x |-> 0, z |-> 0, height |-> 0, type |-> "NONE"]
Tile(x, z, h, t) == [present |-> TRUE, x |-> x, z |-> z, height |-> h, type |-> t]

\* level.tiles of level lv at grid cell (x, z), as tileMap.get(`${x},${z}`)
\* returns it: NoTile stands for undefined.
tileMapGet(lv, x, z) ==
    IF x < 0 \/ x >= size \/ z < 0 \/ z >= size THEN NoTile
    ELSE IF (x = startX(lv) /\ z = startZ(lv)) \/ (x = endX(lv) /\ z = endZ(lv))
         THEN Tile(x, z, 0, "GREEN")
    ELSE IF <<x, z>> \in treeTiles(lv) THEN Tile(x, z, Scale, "TREE")
    ELSE IF <<x, z>> \in rockTiles(lv) THEN Tile(x, z, rockHeight(x, z), "OBSTACLE")
    ELSE IF x <= 1 \/ x >= size - 2 \/ z <= 1 \/ z >= size - 2
         THEN Tile(x, z, -500, "WATER")
    ELSE IF lv \in {"A"} \cup RockyLevels /\ z >= 8 THEN Tile(x, z, -500, "WATER")
    ELSE IF Abs(z - startZ(lv)) <= 1 THEN Tile(x, z, 0, "FAIRWAY")
    ELSE Tile(x, z, 0, "ROUGH")

\* currentTile?.height || 0
heightOrZero(t) == IF t.present /\ t.height # 0 THEN t.height ELSE 0

\* ---------------------------------------------------------------- physics

getFrictionForTile(tileType) ==
    CASE tileType = "SAND" -> frictionSand
      [] tileType = "GREEN" -> frictionGreen
      [] tileType = "ROUGH" -> frictionRough
      [] tileType = "GRAVEL" -> frictionGravel
      [] tileType = "FAIRWAY" -> frictionGround
      [] tileType = "WATER" -> 500
      [] OTHER -> frictionGround

\* const checkRadius = 2
checkRadius == 2
\* const ballRadius = 0.15
ballRadius == 150

\* An obstacle scan that pushes the ball out and leaves its velocity as it is.
collideWithNoBounce(s, obs) ==
    IF ~(obs.present /\ obs.type \in {"TREE", "OBSTACLE"}) THEN s
    ELSE
    LET minDist == (IF obs.type = "TREE" THEN 350 ELSE 450) + ballRadius
        dx == s.pos.x - obs.x * Scale
        dz == s.pos.z - obs.z * Scale
        dist == ISqrt(dx * dx + dz * dz)
        nx == IF dist > 0 THEN RoundDiv(dx * Scale, dist) ELSE Scale
        nz == IF dist > 0 THEN RoundDiv(dz * Scale, dist) ELSE 0
        pushOutDist == (minDist - dist) + 10
    IN  IF s.pos.y > obs.height + 3 * Scale THEN s
        ELSE IF ~(dx * dx + dz * dz < minDist * minDist) THEN s
        ELSE [s EXCEPT !.pos.x = @ + Mul(nx, pushOutDist),
                       !.pos.z = @ + Mul(nz, pushOutDist)]

\* One iteration of the obstacle scan of calculateNextState, for the tile
\* at (cx + i, cz + j): s = [pos, vel] before it, the result after it.
collideWith(s, obs) ==
    IF ~(obs.present /\ obs.type \in {"TREE", "OBSTACLE"}) THEN s
    ELSE
    LET colliderRadius == IF obs.type = "TREE" THEN 350 ELSE 450
        minDist == colliderRadius + ballRadius
        dx == s.pos.x - obs.x * Scale
        dz == s.pos.z - obs.z * Scale
        distSq == dx * dx + dz * dz
        dist == ISqrt(distSq)
        nx == IF dist > 0 THEN RoundDiv(dx * Scale, dist) ELSE Scale
        nz == IF dist > 0 THEN RoundDiv(dz * Scale, dist) ELSE 0
        pushOutDist == (minDist - dist) + 10
        pushed == [s.pos EXCEPT !.x = @ + Mul(nx, pushOutDist),
                                !.z = @ + Mul(nz, pushOutDist)]
        dot == RoundDiv(s.vel.x * nx + s.vel.z * nz, Scale)
        bounced == [s.vel EXCEPT
                      !.x = Mul(Mul(@ - Mul(2 * dot, nx), 700), 900),
                      !.z = Mul(Mul(@ - Mul(2 * dot, nz), 700), 900)]
    IN  IF s.pos.y > obs.height + 3 * Scale THEN s
        ELSE IF ~(distSq < minDist * minDist) THEN s
        ELSE [pos |-> pushed, vel |-> IF dot < 0 THEN bounced ELSE s.vel]

\* The double loop over i, j in -checkRadius..checkRadius, in scan order:
\* k counts the (i, j) pairs already visited.
RECURSIVE collisionLoop(_, _, _, _, _)
collisionLoop(k, s, cx, cz, lv) ==
    LET w == 2 * checkRadius + 1
        i == (k \div w) - checkRadius
        j == (k % w) - checkRadius
    IN  IF k >= w * w THEN s
        ELSE collisionLoop(k + 1,
                           collideWith(s, tileMapGet(lv, cx + i, cz + j)),
                           cx, cz, lv)

\* A ground friction that scales by (speed + frictionMag) / speed.
rolledSpeedsUp(newVel, speed, frictionMag) ==
    IF speed > 0
    THEN IF speed <= frictionMag
         THEN Vec(0, 0, 0)
         ELSE Vec(RoundDiv(newVel.x * (speed + frictionMag), speed), 0,
                  RoundDiv(newVel.z * (speed + frictionMag), speed))
    ELSE Vec(newVel.x, 0, newVel.z)

\* Ground friction (newVel.y === 0) for a horizontal speed and a frictionMag.
rolled(newVel, speed, frictionMag) ==
    IF speed > 0
    THEN IF speed <= frictionMag
         THEN Vec(0, 0, 0)
         ELSE Vec(RoundDiv(newVel.x * (speed - frictionMag), speed), 0,
                  RoundDiv(newVel.z * (speed - frictionMag), speed))
    ELSE Vec(newVel.x, 0, newVel.z)

\* Air friction near ground (bouncing), with the bounced vertical speed vy.
dragged(newVel, vy, dt) ==
    Vec(RoundDiv(newVel.x * (TimeScale - dt), TimeScale), vy,
        RoundDiv(newVel.z * (TimeScale - dt), TimeScale))

\* The velocity after the vertical bounce (vy) and the friction that goes with it.
groundVelocity(finalTile, newVel, vy, dt) ==
    IF vy = 0
    THEN rolled(newVel, magnitude(Vec(newVel.x, 0, newVel.z)),
                RoundDiv(Mul(gravity, getFrictionForTile(finalTile.type)) * dt,
                         TimeScale))
    ELSE dragged(newVel, vy, dt)

\* A ground contact that leaves the ball at the height it arrived at.
groundContactNoClamp(finalTile, floorHeight, newPos, newVel, dt) ==
    IF newPos.y <= floorHeight
    THEN IF finalTile.type = "WATER"
         THEN [pos |-> newPos, vel |-> ZeroVec, collision |-> "WATER"]
         ELSE [pos |-> newPos,
               vel |-> groundVelocity(finalTile, newVel,
                           IF Abs(newVel.y) > 500
                           THEN Mul(-newVel.y, restitution) ELSE 0,
                           dt),
               collision |-> "NONE"]
    ELSE [pos |-> newPos, vel |-> newVel, collision |-> "NONE"]

\* if (newPos.y <= floorHeight) { ... } of calculateNextState.
groundContact(finalTile, floorHeight, newPos, newVel, dt) ==
    IF newPos.y <= floorHeight
    THEN IF finalTile.type = "WATER"
         THEN [pos |-> [newPos EXCEPT !.y = floorHeight], vel |-> ZeroVec,
               collision |-> "WATER"]
         ELSE [pos |-> [newPos EXCEPT !.y = floorHeight],
               vel |-> groundVelocity(finalTile, newVel,
                           IF Abs(newVel.y) > 500
                           THEN Mul(-newVel.y, restitution) ELSE 0,
                           dt),
               collision |-> "NONE"]
    ELSE [pos |-> newPos, vel |-> newVel, collision |-> "NONE"]

\* const floorHeight = finalTile ? finalTile.height : -10
floorOf(finalTile) == IF finalTile.present THEN finalTile.height ELSE -10 * Scale

\* Step 3 of calculateNextState, for the tile under the ball.
groundOn(finalTile, newPos, newVel, dt) ==
    groundContact(finalTile, floorOf(finalTile), newPos, newVel, dt)

\* Step 3 of calculateNextState: ground / terrain interaction.
groundResponse(newPos, newVel, dt, lv) ==
    groundOn(tileMapGet(lv, MathRound(newPos.x), MathRound(newPos.z)),
             newPos, newVel, dt)

\* Step 3 on the position and velocity the obstacle scan returned.
groundAfter(hit, dt, lv) == groundResponse(hit.pos, hit.vel, dt, lv)

\* Step 2 of calculateNextState: the obstacle scan, which changes nothing in
\* a level without TREE or OBSTACLE tiles; then step 3 on what it leaves.
scanAndGround(newPos, newVel, dt, lv) ==
    IF treeTiles(lv) \cup rockTiles(lv) # {}
    THEN groundAfter(collisionLoop(0, [pos |-> newPos, vel |-> newVel],
                                   MathRound(newPos.x), MathRound(newPos.z), lv),
                     dt, lv)
    ELSE groundResponse(newPos, newVel, dt, lv)

\* let newPos = addVectors(pos, scaleVector(newVel, dt)), and what follows.
moveAndGround(pos, newVel, dt, lv) ==
    scanAndGround(addVectors(pos, scaleVector(newVel, dt)), newVel, dt, lv)

\* Forces with the drag alone, without gravity.
forcesNoGravity(vel) ==
    Vec(0 - Mul(vel.x, dragAir), 0 - Mul(vel.y, dragAir), 0 - Mul(vel.z, dragAir))

\* const forces: gravity and drag.
forces(vel) ==
    Vec(0 - Mul(vel.x, dragAir), -gravity - Mul(vel.y, dragAir),
        0 - Mul(vel.z, dragAir))

\* calculateNextState(pos, vel, dt, PHYSICS_CONFIG, tileMap of level lv).
calculateNextState(pos, vel, dt, lv) ==
    moveAndGround(pos, addVectors(vel, scaleVector(forces(vel), dt)), dt, lv)


\* ------------------------------------------------------ trajectory predictor

\* The state of predictTrajectory's for loop: i, currentPos, currentVel, the
\* path so far, and whether a break has been taken.
PredictState(i, currentPos, currentVel, path, done) ==
    [i |-> i, pos |-> currentPos, vel |-> currentVel, path |-> path, done |-> done]

\* An iteration whose touchdown stop records the stepped position as it is.
predictStepNoClamp(st, r, floor) ==
    IF r.pos.y <= floor + 50 /\ st.vel.y < 0
    THEN PredictState(st.i, st.pos, st.vel, Append(st.path, r.pos), TRUE)
    ELSE PredictState(st.i + 1, r.pos, r.vel, Append(st.path, r.pos),
                      r.pos.y <= floor /\ Abs(r.vel.y) < 100 /\ st.i > 0)

\* One iteration from the state st, with r the result of calculateNextState
\* and floor the floor under currentPos.
predictStep(st, r, floor) ==
    IF r.pos.y <= floor + 50 /\ st.vel.y < 0
    THEN PredictState(st.i, st.pos, st.vel,
                      Append(st.path, [r.pos EXCEPT !.y = floor]), TRUE)
    ELSE PredictState(st.i + 1, r.pos, r.vel, Append(st.path, r.pos),
                      r.pos.y <= floor /\ Abs(r.vel.y) < 100 /\ st.i > 0)

\* The body of the for loop, run unless i has reached steps or a break was taken.
predictIteration(st, lv, steps, dt) ==
    IF st.done \/ st.i >= steps THEN st
    ELSE predictStep(st, calculateNextState(st.pos, st.vel, dt, lv),
                     heightOrZero(tileMapGet(lv, MathRound(st.pos.x),
                                             MathRound(st.pos.z))))

\* The next n iterations of the for loop of predictTrajectory, from the state
\* st: the first half of them, then the rest.
RECURSIVE predictLoop(_, _, _, _, _)
predictLoop(st, n, lv, steps, dt) ==
    IF n <= 0 \/ st.done THEN st
    ELSE IF n = 1 THEN predictIteration(st, lv, steps, dt)
    ELSE predictLoop(predictLoop(st, n \div 2, lv, steps, dt), n - n \div 2,
                     lv, steps, dt)

predictTrajectory(startPos, startVel, lv, steps, dt) ==
    predictLoop(PredictState(0, startPos, startVel, <<startPos>>, FALSE),
                steps, lv, steps, dt).path

\* A scan of the points that keeps the lowest y instead of the highest.
RECURSIVE maxYKeepsLowest(_, _, _)
maxYKeepsLowest(points, k, m) ==
    IF k > Len(points) THEN m
    ELSE IF points[k].y < m THEN maxYKeepsLowest(points, k + 1, points[k].y)
    ELSE maxYKeepsLowest(points, k + 1, m)

RECURSIVE maxY(_, _, _)
maxY(points, k, m) ==
    IF k > Len(points) THEN m
    ELSE IF points[k].y > m THEN maxY(points, k + 1, points[k].y)
    ELSE maxY(points, k + 1, m)

\* calculateTrajectoryData: dt = 0.05 s; duration in ms.  launchAngle (an
\* atan2 of startVel alone) is left out.
calculateTrajectoryData(startPos, startVel, lv, maxSteps) ==
    LET dt == TimeScale \div 20
        points == predictTrajectory(startPos, startVel, lv, maxSteps, dt)
        last == points[Len(points)]
    IN  [points |-> points,
         maxHeight |-> maxY(points, 1, startPos.y),
         range |-> ISqrt((last.x - startPos.x) * (last.x - startPos.x)
                         + (last.z - startPos.z) * (last.z - startPos.z)),
         duration |-> (Len(points) - 1) * 50]

\* lastTrajectory === undefined
NoTrajectory == [points |-> <<>>, maxHeight |-> 0, range |-> 0, duration |-> 0]

\* ----------------------------------------------------------- sub-step loop

\* One entry of the record of a frame's sub-steps: the guard that ended the
\* iteration ("VOID") or the physics step taken ("STEP"), what
\* calculateNextState returned, and the ball after the iteration.
LogEntry(kind, r, after) ==
    [kind |-> kind, pos |-> r.pos, vel |-> r.vel, collision |-> r.collision,
     after |-> after]

\* if (distToHole < 0.3 && speed < 5), for the stepped pos and vel.
distToHole(pos, lv) ==
    magnitude(Vec(pos.x - holePosition(lv).x, 0, pos.z - holePosition(lv).z))

\* A capture radius of 0.1 in place of 0.3.
holeCaptureNear(pos, vel, lv) ==
    distToHole(pos, lv) < 100 /\ magnitude(vel) < 5 * Scale

holeCapture(pos, vel, lv) == distToHole(pos, lv) < 300 /\ magnitude(vel) < 5 * Scale

\* A sub-step that stops a ball at rest without clearing its velocity.
steppedBallKeepsVelocity(currentState, r, isBasicallyStopped, inHole, lv) ==
    [currentState EXCEPT
       !.position = IF inHole THEN holePosition(lv) ELSE r.pos,
       !.velocity = IF inHole THEN ZeroVec ELSE r.vel,
       !.isMoving = ~isBasicallyStopped /\ ~inHole,
       !.inHole = inHole]

\* A sub-step that holes the ball where it is, without the snap to the hole centre.
steppedBallNoSnap(currentState, r, isBasicallyStopped, inHole, lv) ==
    [currentState EXCEPT
       !.position = r.pos,
       !.velocity = IF inHole \/ isBasicallyStopped THEN ZeroVec ELSE r.vel,
       !.isMoving = ~isBasicallyStopped /\ ~inHole,
       !.inHole = inHole]

\* The ball an iteration leaves, from what calculateNextState returned (r)
\* and the two tests made on it.
steppedBall(currentState, r, isBasicallyStopped, inHole, lv) ==
    [currentState EXCEPT
       !.position = IF inHole THEN holePosition(lv) ELSE r.pos,
       !.velocity = IF inHole \/ isBasicallyStopped THEN ZeroVec ELSE r.vel,
       !.isMoving = ~isBasicallyStopped /\ ~inHole,
       !.inHole = inHole]

\* const isBasicallyStopped = speed < minVelocityToStop && |pos.y - floor| < 0.1
isBasicallyStopped(r, lv) ==
    /\ magnitude(r.vel) < minVelocityToStop
    /\ Abs(r.pos.y - heightOrZero(tileMapGet(lv, MathRound(r.pos.x),
                                             MathRound(r.pos.z)))) < 100

\* The ball after the WATER branch.
wetBall(currentState, r) ==
    [currentState EXCEPT !.position = r.pos, !.velocity = r.vel, !.isMoving = FALSE]

\* The ball after the Void Killer branch.
voidBall(currentState) ==
    [currentState EXCEPT !.isMoving = FALSE, !.velocity = ZeroVec]

\* A loop that takes all its SUB_STEPS iterations, whether the ball still
\* moves or not.
RECURSIVE subStepLoopPastStop(_, _, _, _, _)
subStepLoopPastStop(i, currentState, subDt, lv, log) ==
    IF i >= SUB_STEPS THEN [ball |-> currentState, log |-> log]
    ELSE LET r == calculateNextState(currentState.position,
                                     currentState.velocity, subDt, lv)
             next == steppedBall(currentState, r, isBasicallyStopped(r, lv),
                                 currentState.inHole
                                   \/ holeCapture(r.pos, r.vel, lv), lv)
         IN  subStepLoopPastStop(i + 1, next, subDt, lv,
                                 Append(log, LogEntry("STEP", r, next)))

\* The body of the for loop of updatePhysics for iteration i and the
\* iterations after it: currentState, and the sub-steps recorded so far.
RECURSIVE subStepLoop(_, _, _, _, _)
RECURSIVE afterStep(_, _, _, _, _, _)
RECURSIVE stepBody(_, _, _, _, _, _)

\* The end of an iteration that made the ball next: break if inHole.
afterStep(i, next, r, subDt, lv, log) ==
    IF next.inHole
    THEN [ball |-> next, log |-> Append(log, LogEntry("STEP", r, next))]
    ELSE subStepLoop(i + 1, next, subDt, lv, Append(log, LogEntry("STEP", r, next)))

\* An iteration past the Void Killer, with r = calculateNextState(...).
stepBody(i, currentState, r, subDt, lv, log) ==
    IF r.collision = "WATER"
    THEN [ball |-> wetBall(currentState, r),
          log |-> Append(log, LogEntry("STEP", r, wetBall(currentState, r)))]
    ELSE afterStep(i,
                   steppedBall(currentState, r, isBasicallyStopped(r, lv),
                               currentState.inHole \/ holeCapture(r.pos, r.vel, lv),
                               lv),
                   r, subDt, lv, log)

subStepLoop(i, currentState, subDt, lv, log) ==
    IF i >= SUB_STEPS \/ ~currentState.isMoving
    THEN [ball |-> currentState, log |-> log]
    ELSE IF currentState.position.y < -10 * Scale
    THEN [ball |-> voidBall(currentState),
          log |-> Append(log, LogEntry("VOID",
                      [pos |-> currentState.position,
                       vel |-> currentState.velocity, collision |-> "NONE"],
                      voidBall(currentState)))]
    ELSE stepBody(i, currentState,
                  calculateNextState(currentState.position, currentState.velocity,
                                     subDt, lv),
                  subDt, lv, log)

\* const dt = Math.min((time - lastTimeRef.current) / 1000, 0.1), in ms.
frameDelta(gap) == IF gap > MaxDeltaMs THEN MaxDeltaMs ELSE gap

\* The state updater of updatePhysics for a frame delta of dtMs milliseconds.
stepFrame(prev, dtMs, lv) ==
    subStepLoop(0, prev, ((dtMs * TimeScale) \div 1000) \div SUB_STEPS, lv, <<>>)


\* --------------------------------------------------------------- App state

VARIABLES
    level,           \* level (which of Levels generateLevel returned)
    ballState,       \* ballState
    gamePhase,       \* gamePhase
    lives,           \* lives
    levelScore,      \* levelScore
    isPaused,        \* isPaused
    lastTrajectory,  \* lastTrajectory
    timers,          \* pending setTimeout(resetBall, 1000), oldest first: ms left,
                     \* and (history) lastStablePosition when the timer was set,
                     \* and whether a restart / next-level has run since then
    sinceLastTime,   \* time - lastTimeRef.current in ms; -1: lastTimeRef undefined
    dragMode,        \* GameCanvas dragMode
    dragCurrent,     \* GameCanvas dragStart/dragCurrent, as the drag they span
    pausedMs,        \* history: ms of sinceLastTime that passed while paused
    lastCommand      \* history: "restart" / "nextLevel" right after that command

vars == <<level, ballState, gamePhase, lives, levelScore, isPaused, lastTrajectory,
          timers, sinceLastTime, dragMode, dragCurrent, pausedMs, lastCommand>>

\* The React state of App the handlers read and write, with the pending timers.
App == [level |-> level, ballState |-> ballState, gamePhase |-> gamePhase,
        lives |-> lives, levelScore |-> levelScore, isPaused |-> isPaused,
        lastTrajectory |-> lastTrajectory, timers |-> timers]

\* lastTrajectory is held as the call that produced it: trajData is its value.
\* handleShoot stores the value and nothing reads it back into the game state.
TrajectoryCall(startPos, startVel, lv, maxSteps) ==
    [defined |-> TRUE, startPos |-> startPos, startVel |-> startVel,
     level |-> lv, maxSteps |-> maxSteps]

NoTrajectoryCall ==
    [defined |-> FALSE, startPos |-> ZeroVec, startVel |-> ZeroVec,
     level |-> "A", maxSteps |-> 0]

trajData(t) ==
    IF t.defined
    THEN calculateTrajectoryData(t.startPos, t.startVel, t.level, t.maxSteps)
    ELSE NoTrajectory

\* useState initial values for a level lv.
newBall(lv) ==
    [position |-> startPosition(lv), velocity |-> ZeroVec, isMoving |-> FALSE,
     inHole |-> FALSE, lastStablePosition |-> startPosition(lv)]

\* A reset that puts the ball back and returns to AIMING but leaves isMoving.
resetBallKeepsMoving(g) ==
    [g EXCEPT !.ballState.position = g.ballState.lastStablePosition,
              !.ballState.velocity = ZeroVec,
              !.gamePhase = "AIMING"]

\* resetBall
resetBall(g) ==
    [g EXCEPT !.ballState.position = g.ballState.lastStablePosition,
              !.ballState.velocity = ZeroVec,
              !.ballState.isMoving = FALSE,
              !.gamePhase = "AIMING"]

\* handleRestart, with newLevel = generateLevel(...) = lv
handleRestart(g, lv) ==
    [g EXCEPT !.level = lv, !.ballState = newBall(lv), !.lives = STARTING_LIVES,
              !.levelScore = 0, !.gamePhase = "AIMING",
              !.lastTrajectory = NoTrajectoryCall, !.isPaused = FALSE]

\* A next-level that also clears the completed-level counter, as restart does.
handleNextLevelResets(g, lv) ==
    [g EXCEPT !.level = lv, !.ballState = newBall(lv), !.lives = STARTING_LIVES,
              !.levelScore = 0, !.gamePhase = "AIMING",
              !.lastTrajectory = NoTrajectoryCall, !.isPaused = FALSE]

\* handleNextLevel, with newLevel = generateLevel(...) = lv
handleNextLevel(g, lv) ==
    [g EXCEPT !.level = lv, !.ballState = newBall(lv), !.lives = STARTING_LIVES,
              !.gamePhase = "AIMING",
              !.lastTrajectory = NoTrajectoryCall, !.isPaused = FALSE]

\* A shot that does not checkpoint the position it is played from.
handleShootNoCheckpoint(g, velocity) ==
    IF g.gamePhase # "AIMING" THEN g
    ELSE [g EXCEPT !.lives = @ - 1,
                   !.lastTrajectory =
                       TrajectoryCall(g.ballState.position, velocity, g.level, 200),
                   !.ballState.velocity = velocity,
                   !.ballState.isMoving = TRUE,
                   !.gamePhase = "EXECUTING"]

\* handleShoot(velocity)
handleShoot(g, velocity) ==
    IF g.gamePhase # "AIMING" THEN g
    ELSE [g EXCEPT !.lives = @ - 1,
                   !.lastTrajectory =
                       TrajectoryCall(g.ballState.position, velocity, g.level, 200),
                   !.ballState.velocity = velocity,
                   !.ballState.isMoving = TRUE,
                   !.ballState.lastStablePosition = g.ballState.position,
                   !.gamePhase = "EXECUTING"]

\* The "Phase Transition Logic" effect, on the state a handler committed.
PhaseTransitionEffect(g) ==
    LET b == g.ballState
        currentTile == tileMapGet(g.level, MathRound(b.position.x),
                                  MathRound(b.position.z))
    IN  IF g.gamePhase # "EXECUTING" THEN g
        ELSE IF b.inHole
        THEN [g EXCEPT !.levelScore = @ + 1, !.gamePhase = "LEVEL_COMPLETE"]
        ELSE IF b.isMoving THEN g
        ELSE IF ~currentTile.present \/ currentTile.type = "WATER"
                \/ b.position.y < -5 * Scale
        THEN [g EXCEPT !.gamePhase = "OUT_OF_BOUNDS",
                       !.timers = Append(@, [left |-> RecoveryDelayMs,
                                             stable |-> b.lastStablePosition,
                                             old |-> FALSE])]
        ELSE IF g.lives <= 0
        THEN [g EXCEPT !.gamePhase = "GAME_OVER"]
        ELSE [g EXCEPT !.gamePhase = "AIMING"]

\* The state h becomes the React state of the next render.
Render(h) ==
    /\ level' = h.level
    /\ ballState' = h.ballState
    /\ gamePhase' = h.gamePhase
    /\ lives' = h.lives
    /\ levelScore' = h.levelScore
    /\ isPaused' = h.isPaused
    /\ lastTrajectory' = h.lastTrajectory
    /\ timers' = h.timers

\* A handler's state update g is committed and the effects run.
Commit(g) == Render(PhaseTransitionEffect(g))

\* ------------------------------------------------------------------ aiming

\* dragStart and dragCurrent, by what calculateShotPhysics returns for them
\* (powerRatio in percent, velocity in mm/s):
\*   "zero"      no drag: both null, or equal as handlePointerDown leaves them
\*   "tap"       DRIVER, powerRatio 0.10 exactly, towards +x
\*   "drive"     DRIVER, powerRatio 1, towards +x (the hole)
\*   "approach"  PUTTER, powerRatio 0.89, towards +x
\*   "side"      DRIVER, powerRatio 1, towards +z
\* Drags are the ones handlePointerMove can set.
Drags == {"tap", "drive", "approach", "side"}

calculateShotPhysics(d) ==
    CASE d = "zero" -> [powerRatio |-> 0, velocity |-> ZeroVec]
      [] d = "tap" -> [powerRatio |-> 10, velocity |-> Vec(2100, 1155, 0)]
      [] d = "drive" -> [powerRatio |-> 100, velocity |-> Vec(22792, 7406, 0)]
      [] d = "approach" -> [powerRatio |-> 89, velocity |-> Vec(14542, 0, 0)]
      [] d = "side" -> [powerRatio |-> 100, velocity |-> Vec(0, 7406, 22792)]

\* --------------------------------------------------------------- bounds

\* A frame arrives at the latest MaxGapTicks quanta after the one before it.
MaxGapTicks == 1

\* The wall-clock quantum; equal to the clamp, so a frame's delta is one quantum.
TickMs == MaxDeltaMs

\* Shots are enabled while lives > -MaxDebt: handleShoot has no test of the
\* lives, so the counter has no floor of its own.
MaxDebt == 1

\* handleNextLevel is enabled while levelScore <= MaxLevelScore.
MaxLevelScore == 1

\* ----------------------------------------------------------------- actions

Init ==
    /\ level \in Levels
    /\ ballState = newBall(level)
    /\ gamePhase = "AIMING"
    /\ lives = STARTING_LIVES
    /\ levelScore = 0
    /\ isPaused = FALSE
    /\ lastTrajectory = NoTrajectoryCall
    /\ timers = <<>>
    /\ sinceLastTime = -1
    /\ dragMode = "NONE"
    /\ dragCurrent = "zero"
    /\ pausedMs = 0
    /\ lastCommand = "none"

\* Wall-clock time passes: one quantum, with no handler running.  A timer that
\* is due runs before more time passes.
Advance ==
    /\ sinceLastTime >= 0
    /\ sinceLastTime < MaxGapTicks * TickMs
    /\ \A i \in 1..Len(timers) : timers[i].left > 0
    /\ sinceLastTime' = sinceLastTime + TickMs
    /\ pausedMs' = IF isPaused THEN pausedMs + TickMs ELSE pausedMs
    /\ timers' = [i \in 1..Len(timers) |->
                      [timers[i] EXCEPT !.left = @ - TickMs]]
    /\ lastCommand' = "none"
    /\ UNCHANGED <<level, ballState, gamePhase, lives, levelScore, isPaused,
                   lastTrajectory, dragMode, dragCurrent>>

\* updatePhysics(time), the requestAnimationFrame callback.
updatePhysics ==
    /\ sinceLastTime # 0
    /\ LET live == sinceLastTime >= 0 /\ ~isPaused /\ ballState.isMoving
           r == stepFrame(ballState, frameDelta(sinceLastTime), level)
       IN  IF live
           THEN Commit([App EXCEPT !.ballState = r.ball])
           ELSE Commit(App)
    /\ sinceLastTime' = 0
    /\ pausedMs' = 0
    /\ lastCommand' = "none"
    /\ UNCHANGED <<dragMode, dragCurrent>>

\* The callback of setTimeout(resetBall, 1000), when its delay has run out.
resetBallTimeout ==
    /\ timers # <<>>
    /\ Head(timers).left = 0
    /\ Commit(resetBall([App EXCEPT !.timers = Tail(timers)]))
    /\ lastCommand' = "none"
    /\ UNCHANGED <<sinceLastTime, pausedMs, dragMode, dragCurrent>>

\* handlePointerDown; nearBall is dist < 60 * camera.zoom.
handlePointerDown(nearBall) ==
    /\ IF isPaused
       THEN UNCHANGED <<dragMode, dragCurrent>>
       ELSE /\ dragMode' = IF nearBall /\ gamePhase = "AIMING" THEN "AIM" ELSE "PAN"
            /\ dragCurrent' = "zero"
    /\ Commit(App)
    /\ lastCommand' = "none"
    /\ UNCHANGED <<sinceLastTime, pausedMs>>

\* handlePointerMove to the drag d.  A pan moves the camera, which is left out.
handlePointerMove(d) ==
    /\ IF isPaused \/ dragMode # "AIM"
       THEN UNCHANGED <<dragMode, dragCurrent>>
       ELSE /\ dragCurrent' = d
            /\ UNCHANGED dragMode
    /\ Commit(App)
    /\ lastCommand' = "none"
    /\ UNCHANGED <<sinceLastTime, pausedMs>>

\* A release that shoots from a power ratio of 0.1 on, not above 0.1.
handlePointerUpFromThreshold ==
    LET phys == calculateShotPhysics(dragCurrent)
        shoots == ~isPaused /\ dragMode = "AIM" /\ phys.powerRatio >= 10
    IN  /\ shoots => lives > -MaxDebt
        /\ IF isPaused
           THEN UNCHANGED <<dragMode, dragCurrent>>
           ELSE /\ dragMode' = "NONE"
                /\ dragCurrent' = "zero"
        /\ Commit(IF shoots THEN handleShoot(App, phys.velocity) ELSE App)
        /\ lastCommand' = "none"
        /\ UNCHANGED <<sinceLastTime, pausedMs>>

\* handlePointerUp (onPointerUp and onPointerLeave).
handlePointerUp ==
    LET phys == calculateShotPhysics(dragCurrent)
        shoots == ~isPaused /\ dragMode = "AIM" /\ phys.powerRatio > 10
    IN  /\ shoots => lives > -MaxDebt
        /\ IF isPaused
           THEN UNCHANGED <<dragMode, dragCurrent>>
           ELSE /\ dragMode' = "NONE"
                /\ dragCurrent' = "zero"
        /\ Commit(IF shoots THEN handleShoot(App, phys.velocity) ELSE App)
        /\ lastCommand' = "none"
        /\ UNCHANGED <<sinceLastTime, pausedMs>>

\* onTogglePause
onTogglePause ==
    /\ Commit([App EXCEPT !.isPaused = ~isPaused])
    /\ lastCommand' = "none"
    /\ UNCHANGED <<sinceLastTime, pausedMs, dragMode, dragCurrent>>

\* History: the pending timers were set before the command that runs now.
aged(ts) == [i \in 1..Len(ts) |-> [ts[i] EXCEPT !.old = TRUE]]

\* onRestart: the RESTART and PLAY AGAIN buttons.
onRestart(lv) ==
    /\ Commit(handleRestart([App EXCEPT !.timers = aged(timers)], lv))
    /\ lastCommand' = "restart"
    /\ UNCHANGED <<sinceLastTime, pausedMs, dragMode, dragCurrent>>

\* onNextLevel: the NEXT LEVEL button, rendered in LEVEL_COMPLETE only.
onNextLevel(lv) ==
    /\ gamePhase = "LEVEL_COMPLETE"
    /\ levelScore <= MaxLevelScore
    /\ Commit(handleNextLevel([App EXCEPT !.timers = aged(timers)], lv))
    /\ lastCommand' = "nextLevel"
    /\ UNCHANGED <<sinceLastTime, pausedMs, dragMode, dragCurrent>>

Next ==
    \/ Advance
    \/ updatePhysics
    \/ resetBallTimeout
    \/ \E nearBall \in BOOLEAN : handlePointerDown(nearBall)
    \/ \E d \in Drags : handlePointerMove(d)
    \/ handlePointerUp
    \/ onTogglePause
    \/ \E lv \in Levels : onRestart(lv)
    \/ \E lv \in Levels : onNextLevel(lv)

Spec == Init /\ [][Next]_vars


\* ------------------------------------------------------------------ claims

Phases == {"AIMING", "EXECUTING", "LEVEL_COMPLETE", "OUT_OF_BOUNDS", "GAME_OVER"}

\* The step is a frame whose sub-step loop ran: only updatePhysics sets
\* lastTimeRef, and the loop runs when the game is not paused and the ball moves.
LiveFrame ==
    sinceLastTime > 0 /\ sinceLastTime' = 0 /\ ~isPaused /\ ballState.isMoving

\* The step is a restart or next-level command.
Command == lastCommand' \in {"restart", "nextLevel"}

\* The step is the callback of a recovery timer.
TimerRuns == Len(timers') < Len(timers)

\* The step is a pointer release of an aiming drag above the power threshold.
ShotReleased ==
    /\ dragMode = "AIM"
    /\ dragMode' = "NONE"
    /\ calculateShotPhysics(dragCurrent).powerRatio > 10

\* C1: every shot terminates.  A frame that runs the sub-step loop on an
\* EXECUTING shot and leaves BallState exactly as it found it is repeated by
\* every later frame, so the phase never leaves EXECUTING: no such frame
\* exists, and in particular a ball that has come down over an absent tile is
\* stopped instead of staying "moving".
C1_ShotTerminates ==
    [][ (LiveFrame /\ gamePhase = "EXECUTING") => ballState' # ballState ]_vars

\* C2: releasing a valid shot while AIMING takes one life, checkpoints the
\* position into lastStablePosition, sets the launch velocity and isMoving,
\* leaves position and inHole alone and enters EXECUTING; the phase goes
\* AIMING -> EXECUTING and a life is consumed only by such a release, one life
\* per release (the release ends the drag, so it cannot fire twice).
C2_ShotRelease ==
    [][ /\ (ShotReleased /\ gamePhase = "AIMING")
            => /\ lives' = lives - 1
               /\ ballState' =
                    [ballState EXCEPT
                       !.lastStablePosition = ballState.position,
                       !.velocity = calculateShotPhysics(dragCurrent).velocity,
                       !.isMoving = TRUE]
               /\ gamePhase' = "EXECUTING"
        /\ (gamePhase = "AIMING" /\ gamePhase' = "EXECUTING") => ShotReleased
        /\ (lives' < lives) => (ShotReleased /\ lives' = lives - 1)
      ]_vars

\* A second shot has just been released from where the first one came to rest.
C2_Witness ==
    /\ gamePhase = "EXECUTING"
    /\ lives = STARTING_LIVES - 2
    /\ ballState.isMoving
    /\ ballState.position = ballState.lastStablePosition
    /\ ballState.lastStablePosition # startPosition(level)
    /\ ballState.velocity = calculateShotPhysics("approach").velocity

\* C3: apart from restart / next-level, the phase changes only along
\* AIMING -> EXECUTING, EXECUTING -> LEVEL_COMPLETE (ball holed),
\* EXECUTING -> OUT_OF_BOUNDS / GAME_OVER / AIMING (in the frame that stopped
\* the ball, not holed) and OUT_OF_BOUNDS -> AIMING (recovery timer); it never
\* takes a value outside the five phases.
C3_PhaseEdges ==
    [][ /\ gamePhase' \in Phases
        /\ (gamePhase' # gamePhase /\ ~Command)
            => \/ gamePhase = "AIMING" /\ gamePhase' = "EXECUTING"
               \/ /\ gamePhase = "EXECUTING"
                  /\ gamePhase' = "LEVEL_COMPLETE"
                  /\ ballState'.inHole
               \/ /\ gamePhase = "EXECUTING"
                  /\ gamePhase' \in {"OUT_OF_BOUNDS", "GAME_OVER", "AIMING"}
                  /\ LiveFrame
                  /\ ~ballState'.isMoving
                  /\ ~ballState'.inHole
               \/ /\ gamePhase = "OUT_OF_BOUNDS"
                  /\ gamePhase' = "AIMING"
                  /\ TimerRuns
      ]_vars

\* C4: while EXECUTING, a step that changes the ball's position or velocity
\* is a frame of the sub-step loop, or a restart / next-level command.
C4_SoleWriter ==
    [][ ( /\ gamePhase = "EXECUTING"
          /\ \/ ballState'.position # ballState.position
             \/ ballState'.velocity # ballState.velocity
          /\ ~Command )
        => LiveFrame
      ]_vars

\* C5: a sub-step that returns WATER is the last of its frame and leaves the
\* ball stopped with zero velocity, the phase goes EXECUTING -> OUT_OF_BOUNDS
\* in that frame, and when the recovery timer set then runs, the ball is put
\* exactly where it was when that shot was released, with zero velocity, not
\* moving, in AIMING.
C5_WaterRecovery ==
    [][ /\ LiveFrame
            => LET log == stepFrame(ballState, frameDelta(sinceLastTime), level).log
               IN  (\E k \in 1..Len(log) : log[k].collision = "WATER")
                     => /\ \A k \in 1..Len(log) :
                              log[k].collision = "WATER" <=> k = Len(log)
                        /\ ~ballState'.isMoving
                        /\ ballState'.velocity = ZeroVec
                        /\ gamePhase = "EXECUTING" => gamePhase' = "OUT_OF_BOUNDS"
        /\ TimerRuns
            => /\ ballState'.position = Head(timers).stable
               /\ ballState'.velocity = ZeroVec
               /\ ~ballState'.isMoving
               /\ gamePhase' = "AIMING"
      ]_vars

\* C6: a shot that ends with the ball stopped and not holed while lives <= 0
\* ends in GAME_OVER, and the phase is never AIMING while lives <= 0.
C6_GameOver ==
    /\ [](lives <= 0 => gamePhase # "AIMING")
    /\ [][ ( /\ gamePhase = "EXECUTING"
             /\ gamePhase' # "EXECUTING"
             /\ ~Command
             /\ ~ballState'.isMoving
             /\ ~ballState'.inHole
             /\ lives' <= 0 )
           => gamePhase' = "GAME_OVER"
         ]_vars

\* C7: levelScore goes up by exactly 1 in the step that takes the phase
\* EXECUTING -> LEVEL_COMPLETE, which is the step in which the ball is holed;
\* restart sets it to 0, next-level leaves it as it is, and no other step
\* changes it.
C7_LevelScore ==
    [][ /\ (gamePhase = "EXECUTING" /\ gamePhase' = "LEVEL_COMPLETE")
            => /\ levelScore' = levelScore + 1
               /\ ~ballState.inHole
               /\ ballState'.inHole
        /\ lastCommand' = "restart" => levelScore' = 0
        /\ lastCommand' = "nextLevel" => levelScore' = levelScore
        /\ levelScore' # levelScore
            => \/ gamePhase = "EXECUTING" /\ gamePhase' = "LEVEL_COMPLETE"
               \/ lastCommand' = "restart"
      ]_vars

\* The next-level command has just run after a holed shot, and the score stands.
C7_Witness ==
    /\ lastCommand = "nextLevel"
    /\ levelScore = 1
    /\ gamePhase = "AIMING"
    /\ lives = STARTING_LIVES

\* C8: in a frame of the sub-step loop, every sub-step that takes a physics
\* step, gets no WATER event, and ends within 0.3 of the hole centre
\* (horizontally) at a speed below 5 sets inHole, puts the ball on the hole
\* centre with zero velocity and not moving, and is the last sub-step of the
\* frame: the ball the frame commits is the ball of that sub-step.
C8_HoleCapture ==
    [][ LiveFrame
        => LET r == stepFrame(ballState, frameDelta(sinceLastTime), level)
           IN  \A k \in 1..Len(r.log) :
                 ( /\ r.log[k].kind = "STEP"
                   /\ r.log[k].collision # "WATER"
                   /\ distToHole(r.log[k].pos, level) < 300
                   /\ magnitude(r.log[k].vel) < 5 * Scale )
                 => /\ r.log[k].after.inHole
                    /\ r.log[k].after.position = holePosition(level)
                    /\ r.log[k].after.velocity = ZeroVec
                    /\ ~r.log[k].after.isMoving
                    /\ k = Len(r.log)
                    /\ ballState' = r.log[k].after
      ]_vars

\* A frame has captured the ball: it sits on the hole centre, holed and still.
C8_Witness ==
    /\ ballState.inHole
    /\ ballState.position = holePosition(level)
    /\ ballState.velocity = ZeroVec
    /\ ~ballState.isMoving
    /\ gamePhase = "LEVEL_COMPLETE"
    /\ sinceLastTime = 0

\* C9: while the game is paused no step other than a restart / next-level
\* command changes BallState or the phase, and the step that toggles pause on
\* or off changes neither.
C9_PauseFreezes ==
    [][ ((isPaused \/ isPaused' # isPaused) /\ ~Command)
        => (ballState' = ballState /\ gamePhase' = gamePhase)
      ]_vars

\* C10: the delta a frame applies to the ball is at most 0.1 s and at most the
\* unpaused part of the time since the previous frame tick.
C10_FrameDelta ==
    [][ LiveFrame
        => /\ frameDelta(sinceLastTime) <= MaxDeltaMs
           /\ frameDelta(sinceLastTime) <= sinceLastTime - pausedMs
      ]_vars

\* C11: in every reachable state a ball that is not moving has velocity
\* (0,0,0).
C11_StoppedHasZeroVelocity ==
    ~ballState.isMoving => ballState.velocity = ZeroVec

\* A shot has come to rest on the course: the ball lies still away from the
\* start, and the player aims again.
C11_Witness ==
    /\ ~ballState.isMoving
    /\ ~ballState.inHole
    /\ gamePhase = "AIMING"
    /\ lives < STARTING_LIVES
    /\ ballState.position # startPosition(level)
    /\ ballState.position # ballState.lastStablePosition

\* C12: in every reachable state a holed ball lies on the hole centre of the
\* current level with velocity (0,0,0).
C12_HoledAtHoleCentre ==
    ballState.inHole
        => /\ ballState.position = holePosition(level)
           /\ ballState.velocity = ZeroVec

\* The ball has been holed with the second shot, played from where the first
\* one came to rest.
C12_Witness ==
    /\ ballState.inHole
    /\ ballState.lastStablePosition # startPosition(level)
    /\ lives = STARTING_LIVES - 2
    /\ levelScore = 1

\* C13: a restart or next-level command leaves the phase AIMING, the ball of
\* a freshly loaded level (at its start, still, not holed, checkpoint at the
\* start), 5 lives, no ghost trajectory and no pause; and the callback of a
\* recovery timer that was set before the command changes neither BallState
\* nor the phase.
C13_FreshLevel ==
    [][ /\ Command
            => /\ gamePhase' = "AIMING"
               /\ ballState' = newBall(level')
               /\ lives' = STARTING_LIVES
               /\ lastTrajectory' = NoTrajectoryCall
               /\ ~isPaused'
        /\ (TimerRuns /\ Head(timers).old)
            => (ballState' = ballState /\ gamePhase' = gamePhase)
      ]_vars

\* C14: a pointer event that is not the release of a valid shot in AIMING
\* (the start of a drag, a move of it, its release at a power ratio of at most
\* 0.1 or in another phase) changes none of BallState, the phase, lives, the
\* completed-level counter and the ghost trajectory.  Only pointer events
\* change the drag.
C14_AbandonedAim ==
    [][ ( /\ dragMode' # dragMode \/ dragCurrent' # dragCurrent
          /\ ~(ShotReleased /\ gamePhase = "AIMING") )
        => UNCHANGED <<ballState, gamePhase, lives, levelScore, lastTrajectory>>
      ]_vars

\* After a first shot, an aim drag stands at a power ratio of exactly 0.1:
\* its release abandons the aim.
C14_Witness ==
    /\ dragMode = "AIM"
    /\ dragCurrent = "tap"
    /\ calculateShotPhysics(dragCurrent).powerRatio <= 10
    /\ gamePhase = "AIMING"
    /\ lives = STARTING_LIVES - 1
    /\ lastTrajectory # NoTrajectoryCall


\* ------------------------------------------- the physics engine on its own

\* calculateNextState and predictTrajectory as JavaScript runs them, on a heap
\* of Vector3 objects: h is the sequence of the objects allocated so far, a
\* reference is an index into it, an object literal (addVectors, scaleVector,
\* { x: 0, y: 0, z: 0 }, { ...pos, y: floor }) appends a new object, and an
\* assignment to a field (newPos.y = floorHeight, newVel.x *= factor)
\* replaces the object the reference names.

\* return { pos: newPos, vel: { x:0, y:0, z:0 }, collision: 'WATER' } or
\* return { pos: newPos, vel: newVel }, after the writes of step 3.
landOnHeap(h, newPos, newVel, g) ==
    IF g.collision = "WATER"
    THEN [heap |-> Append([h EXCEPT ![newPos] = g.pos], ZeroVec),
          pos |-> newPos, vel |-> Len(h) + 1, collision |-> "WATER"]
    ELSE [heap |-> [h EXCEPT ![newPos] = g.pos, ![newVel] = g.vel],
          pos |-> newPos, vel |-> newVel, collision |-> "NONE"]

\* Step 3 of calculateNextState on the objects newPos and newVel.
groundOnHeap(h, newPos, newVel, dt, lv) ==
    landOnHeap(h, newPos, newVel, groundResponse(h[newPos], h[newVel], dt, lv))

\* The writes of the obstacle scan: newPos.x += ..., newVel.x = ...
pushOnHeap(h, newPos, newVel, hit) ==
    [h EXCEPT ![newPos] = hit.pos, ![newVel] = hit.vel]

\* Step 2 of calculateNextState on the objects newPos and newVel, then step 3.
scanOnHeap(h, newPos, newVel, dt, lv) ==
    IF treeTiles(lv) \cup rockTiles(lv) # {}
    THEN groundOnHeap(pushOnHeap(h, newPos, newVel,
                          collisionLoop(0, [pos |-> h[newPos], vel |-> h[newVel]],
                                        MathRound(h[newPos].x),
                                        MathRound(h[newPos].z), lv)),
                      newPos, newVel, dt, lv)
    ELSE groundOnHeap(h, newPos, newVel, dt, lv)

\* An addVectors that adds into its first argument and returns it.
addVectorsInPlace(h, v1, v2) ==
    [heap |-> [h EXCEPT ![v1] = addVectors(h[v1], h[v2])], ref |-> v1]

\* addVectors(v1, v2) on the heap: a new object.
addVectorsOnHeap(h, v1, v2) ==
    [heap |-> Append(h, addVectors(h[v1], h[v2])), ref |-> Len(h) + 1]

\* scaleVector(v, s) on the heap: a new object.
scaleVectorOnHeap(h, v, dt) ==
    [heap |-> Append(h, scaleVector(h[v], dt)), ref |-> Len(h) + 1]

\* calculateNextState once newPos is made (a = the result of addVectors).
withNewPos(a, newVel, dt, lv) == scanOnHeap(a.heap, a.ref, newVel, dt, lv)

\* let newPos = addVectors(pos, scaleVector(newVel, dt)), s = the scaled newVel.
makeNewPos(s, pos, newVel, dt, lv) ==
    withNewPos(addVectorsOnHeap(s.heap, pos, s.ref), newVel, dt, lv)

\* calculateNextState once newVel is made (a = the result of addVectors).
withNewVel(a, pos, dt, lv) ==
    makeNewPos(scaleVectorOnHeap(a.heap, a.ref, dt), pos, a.ref, dt, lv)

\* let newVel = addVectors(vel, scaleVector(forces, dt)), s = the scaled forces.
makeNewVel(s, pos, vel, dt, lv) ==
    withNewVel(addVectorsOnHeap(s.heap, vel, s.ref), pos, dt, lv)

\* calculateNextState once forces is made: h ends with the forces object.
withForces(h, pos, vel, dt, lv) ==
    makeNewVel(scaleVectorOnHeap(h, Len(h), dt), pos, vel, dt, lv)

\* calculateNextState(pos, vel, dt, PHYSICS_CONFIG, tileMap) for the objects
\* pos and vel of the heap h: the heap it leaves, the objects it returns.
calculateNextStateOnHeap(h, pos, vel, dt, lv) ==
    withForces(Append(h, forces(h[vel])), pos, vel, dt, lv)

\* What a result on the heap holds, as calculateNextState returns it.
resultOnHeap(r) ==
    [pos |-> r.heap[r.pos], vel |-> r.heap[r.vel], collision |-> r.collision]

\* The state of predictTrajectory's for loop on the heap h: currentPos,
\* currentVel and the elements of path are references.
PredictStateOnHeap(h, i, currentPos, currentVel, path, done) ==
    [heap |-> h, i |-> i, pos |-> currentPos, vel |-> currentVel, path |-> path,
     done |-> done]

\* One iteration from the state st, with r the result of calculateNextState
\* on the heap and floor the floor under currentPos.
predictStepOnHeap(st, r, floor) ==
    IF r.heap[r.pos].y <= floor + 50 /\ st.heap[st.vel].y < 0
    THEN PredictStateOnHeap(Append(r.heap, [r.heap[r.pos] EXCEPT !.y = floor]),
                            st.i, st.pos, st.vel,
                            Append(st.path, Len(r.heap) + 1), TRUE)
    ELSE PredictStateOnHeap(r.heap, st.i + 1, r.pos, r.vel, Append(st.path, r.pos),
                            /\ r.heap[r.pos].y <= floor
                            /\ Abs(r.heap[r.vel].y) < 100
                            /\ st.i > 0)

\* The body of the for loop on the heap.
predictIterationOnHeap(st, lv, steps, dt) ==
    IF st.done \/ st.i >= steps THEN st
    ELSE predictStepOnHeap(st,
             calculateNextStateOnHeap(st.heap, st.pos, st.vel, dt, lv),
             heightOrZero(tileMapGet(lv, MathRound(st.heap[st.pos].x),
                                     MathRound(st.heap[st.pos].z))))

\* The next n iterations of the for loop on the heap.
RECURSIVE predictLoopOnHeap(_, _, _, _, _)
predictLoopOnHeap(st, n, lv, steps, dt) ==
    IF n <= 0 \/ st.done THEN st
    ELSE IF n = 1 THEN predictIterationOnHeap(st, lv, steps, dt)
    ELSE predictLoopOnHeap(predictLoopOnHeap(st, n \div 2, lv, steps, dt),
                           n - n \div 2, lv, steps, dt)

\* predictTrajectory(startPos, startVel, ...) for objects of the heap h.
predictTrajectoryOnHeap(h, startPos, startVel, lv, steps, dt) ==
    predictLoopOnHeap(PredictStateOnHeap(h, 0, startPos, startVel, <<startPos>>,
                                         FALSE),
                      steps, lv, steps, dt)

\* The points a path of references names.
pointsOnHeap(r) == [k \in 1..Len(r.path) |-> r.heap[r.path[k]]]


\* CLUB_STATS[selectedClub].guideLines, for the club of the drag d.
guideLines(d) == IF d = "approach" THEN 40 ELSE 100

\* const dt = 0.05 of calculateTrajectoryData.
predictorDt == TimeScale \div 20

\* dt / SUB_STEPS of updatePhysics for a frame delta of 0.1 s.
subDt == ((MaxDeltaMs * TimeScale) \div 1000) \div SUB_STEPS

\* The values of dt the engine is stepped with: a sub-step of a full frame,
\* the predictor's step, and a tenth of a second and a second, the largest dt
\* the engine claims to take.
PhysDts == {subDt, predictorDt, TimeScale \div 10, TimeScale}

\* Where the ball is when the engine is called, on level lv: on its start, on
\* the fairway, in flight over it, next to the lake, next to the hole, and
\* next to the edge of the grid; on a level with rocks, on its start and on
\* the fairway south of where the two rocks meet.
PhysPositions(lv) ==
    IF lv \in RockyLevels
    THEN {startPosition(lv), Vec(10500, 0, 5450)}
    ELSE {startPosition(lv),
          Vec(19260, 0, startZ(lv) * Scale),
          Vec(10000, 2000, startZ(lv) * Scale),
          Vec(4000, 0, 7300),
          Vec(endX(lv) * Scale - 400, 0, endZ(lv) * Scale),
          Vec(31300, 1000, startZ(lv) * Scale)}

\* The velocity it has: at rest, as the four drags launch it, rolling, falling,
\* rolling slowly and faster across the fairway.
PhysVelocities ==
    {ZeroVec} \cup {calculateShotPhysics(d).velocity : d \in Drags}
    \cup {Vec(1000, 0, 0), Vec(0, -3000, 600), Vec(-14542, 0, 0),
          Vec(40, 0, 2500), Vec(2000, 0, 3000)}

\* The levels the engine is run on.
PhysLevels == Levels \cup RockyLevels

\* The ball object the engine is handed.
physBall(p, v) ==
    [position |-> p, velocity |-> v, isMoving |-> v # ZeroVec, inHole |-> FALSE,
     lastStablePosition |-> p]

\* The engine is run on its own: ballState holds the ball its callers hand
\* it, level the terrain; the rest of the App state is left as it is loaded.
PhysInit ==
    /\ level \in PhysLevels
    /\ ballState \in {physBall(p, v) : p \in PhysPositions(level),
                                       v \in PhysVelocities}
    /\ gamePhase = "AIMING"
    /\ lives = STARTING_LIVES
    /\ levelScore = 0
    /\ isPaused = FALSE
    /\ lastTrajectory = NoTrajectoryCall
    /\ timers = <<>>
    /\ sinceLastTime = -1
    /\ dragMode = "NONE"
    /\ dragCurrent = "zero"
    /\ pausedMs = 0
    /\ lastCommand = "none"

\* The caller takes the objects calculateNextState returned as the ball's.
takeStep(r) ==
    ballState' = [ballState EXCEPT !.position = r.heap[r.pos],
                                   !.velocity = r.heap[r.vel],
                                   !.isMoving = r.heap[r.vel] # ZeroVec]

\* One call of calculateNextState as a sub-step of updatePhysics makes it, on
\* the ball's position and velocity objects.
physicsStep ==
    /\ takeStep(calculateNextStateOnHeap(
                    <<ballState.position, ballState.velocity>>, 1, 2, subDt, level))
    /\ UNCHANGED <<level, gamePhase, lives, levelScore, isPaused, lastTrajectory,
                   timers, sinceLastTime, dragMode, dragCurrent, pausedMs,
                   lastCommand>>

\* The ball is what its position and velocity objects hold after a call.
readBack(r) ==
    ballState' = [ballState EXCEPT !.position = r.heap[1], !.velocity = r.heap[2]]

\* The aim preview of GameCanvas for a drag to d over a ball that lies still:
\* calculateTrajectoryData(ballPosition, phys.velocity, ...).  Objects 1 and 2
\* are the ball's position and velocity, object 3 is phys.velocity.
aimPreview(d) ==
    /\ ballState.velocity = ZeroVec
    /\ d # dragCurrent
    /\ readBack(predictTrajectoryOnHeap(
                    <<ballState.position, ballState.velocity,
                      calculateShotPhysics(d).velocity>>,
                    1, 3, level, guideLines(d), predictorDt))
    /\ dragMode' = "AIM"
    /\ dragCurrent' = d
    /\ UNCHANGED <<level, gamePhase, lives, levelScore, isPaused, lastTrajectory,
                   timers, sinceLastTime, pausedMs, lastCommand>>

PhysNext ==
    \/ physicsStep
    \/ \E d \in Drags : aimPreview(d)

PhysSpec == PhysInit /\ [][PhysNext]_vars

\* calculateNextState called on the ball's objects with dt leaves them as they
\* were, returns what the function of their values returns, and returns it
\* again when it is called again on the heap the first call left.
stepIsPure(dt) ==
    LET h == <<ballState.position, ballState.velocity>>
        r == calculateNextStateOnHeap(h, 1, 2, dt, level)
        again == calculateNextStateOnHeap(r.heap, 1, 2, dt, level)
    IN  /\ SubSeq(r.heap, 1, 2) = h
        /\ SubSeq(again.heap, 1, Len(r.heap)) = r.heap
        /\ resultOnHeap(r) = calculateNextState(h[1], h[2], dt, level)
        /\ resultOnHeap(again) = resultOnHeap(r)

\* The same for predictTrajectory called with the ball's position and the
\* launch velocity of the drag d.
predictorIsPure(d) ==
    LET h == <<ballState.position, ballState.velocity,
               calculateShotPhysics(d).velocity>>
        r == predictTrajectoryOnHeap(h, 1, 3, level, guideLines(d), predictorDt)
        again == predictTrajectoryOnHeap(r.heap, 1, 3, level, guideLines(d),
                                         predictorDt)
    IN  /\ SubSeq(r.heap, 1, 3) = h
        /\ SubSeq(again.heap, 1, Len(r.heap)) = r.heap
        /\ pointsOnHeap(r) = predictTrajectory(h[1], h[3], level, guideLines(d),
                                               predictorDt)
        /\ pointsOnHeap(again) = pointsOnHeap(r)

\* C15: the physics step and the predictor are pure.  Called on the ball's
\* objects they return what a function of the arguments' values returns, the
\* same on every call, and write to no object they were handed; and an aim
\* preview, which calls the predictor, leaves BallState, the phase and lives
\* as they were.
C15_Pure ==
    /\ [](/\ \A dt \in PhysDts : stepIsPure(dt)
          /\ \A d \in Drags : predictorIsPure(d))
    /\ [][ dragCurrent' # dragCurrent
           => UNCHANGED <<ballState, gamePhase, lives>> ]_vars

\* A shot has been stepped to rest away from where it started, and the aim
\* preview of a full drive has been computed over the resting ball.
C15_Witness ==
    /\ dragCurrent = "drive"
    /\ ballState.velocity = ZeroVec
    /\ ballState.position # ballState.lastStablePosition
    /\ ballState.position.y = 0

\* C16: wherever the ball is, if there is no tile under it, the floor the
\* physics step lands it on, the floor of the predictor's stop test and the
\* floor of the live rest detection are the same floor, far below the course
\* (-10), and none of them is ground at height 0.
C16_AbsentTileIsVoid ==
    LET t == tileMapGet(level, MathRound(ballState.position.x),
                        MathRound(ballState.position.z))
    IN  ~t.present
          => /\ floorOf(t) = -10 * Scale
             /\ heightOrZero(t) = floorOf(t)
             /\ heightOrZero(t) # 0

\* newPos and newVel of calculateNextState(pos, vel, dt, ...) when step 3
\* begins: after the integration and the obstacle scan.
beforeGround(pos, vel, dt, lv) ==
    LET newVel == addVectors(vel, scaleVector(forces(vel), dt))
        newPos == addVectors(pos, scaleVector(newVel, dt))
    IN  IF treeTiles(lv) \cup rockTiles(lv) # {}
        THEN collisionLoop(0, [pos |-> newPos, vel |-> newVel],
                           MathRound(newPos.x), MathRound(newPos.z), lv)
        ELSE [pos |-> newPos, vel |-> newVel]

\* The square of the horizontal speed of v.
horizontalSq(v) == v.x * v.x + v.z * v.z

\* The step from the ball's state with dt ends in ground contact on a tile
\* that is not WATER.
landsOnGround(dt) ==
    LET b == beforeGround(ballState.position, ballState.velocity, dt, level)
        t == tileMapGet(level, MathRound(b.pos.x), MathRound(b.pos.z))
    IN  b.pos.y <= floorOf(t) /\ t.type # "WATER"

\* TileType without WATER.
DryTileTypes ==
    {"FAIRWAY", "ROUGH", "SAND", "GREEN", "GRAVEL", "TREE", "OBSTACLE", "EMPTY"}

\* C17: friction never adds energy.  For every dt in (0, 1] and every step
\* that ends in ground contact on a tile that is not WATER, whatever the type
\* of that tile (and so its friction coefficient), the horizontal speed the
\* ground response leaves is at most the horizontal speed it started from,
\* and where the ball rolls (no vertical speed left) no horizontal component
\* has changed sign.
C17_FrictionNeverAddsEnergy ==
    \A dt \in PhysDts :
      landsOnGround(dt)
        => LET b == beforeGround(ballState.position, ballState.velocity, dt, level)
               t == tileMapGet(level, MathRound(b.pos.x), MathRound(b.pos.z))
           IN  \A ty \in {t.type} \cup (IF t.present THEN DryTileTypes ELSE {}) :
                 LET after == groundOn([t EXCEPT !.type = ty], b.pos, b.vel, dt).vel
                 IN  /\ horizontalSq(after) <= horizontalSq(b.vel)
                     /\ after.y = 0 => /\ after.x * b.vel.x >= 0
                                       /\ after.z * b.vel.z >= 0

\* A ball that has been stepped along the ground is rolling: its next
\* sub-step ends in ground contact and friction takes some of its speed but
\* not all; and its next step at the predictor's dt bounces (vertical speed
\* left), where the near-ground drag applies.
C17_Witness ==
    /\ ballState.position # ballState.lastStablePosition
    /\ landsOnGround(subDt)
    /\ LET b == beforeGround(ballState.position, ballState.velocity, subDt, level)
           after == groundResponse(b.pos, b.vel, subDt, level).vel
       IN  /\ after.y = 0
           /\ 0 < horizontalSq(after)
           /\ horizontalSq(after) < horizontalSq(b.vel)
    /\ landsOnGround(predictorDt)
    /\ LET b == beforeGround(ballState.position, ballState.velocity, predictorDt,
                             level)
           after == groundResponse(b.pos, b.vel, predictorDt, level).vel
       IN  /\ after.y # 0
           /\ horizontalSq(after) < horizontalSq(b.vel)

\* n calls of calculateNextState with dt, each on the position and velocity
\* the call before it returned, from pos and vel: every one of them returns a
\* position with the coordinates x and z.
RECURSIVE staysAt(_, _, _, _, _, _, _)
RECURSIVE stillAt(_, _, _, _, _, _)

stillAt(r, n, dt, lv, x, z) ==
    /\ r.pos.x = x
    /\ r.pos.z = z
    /\ staysAt(r.pos, r.vel, n - 1, dt, lv, x, z)

staysAt(pos, vel, n, dt, lv, x, z) ==
    n = 0 \/ stillAt(calculateNextState(pos, vel, dt, lv), n, dt, lv, x, z)

\* How many repeated steps of a resting ball are looked at.
RestSteps == 8

\* The ball has velocity (0, 0, 0) and lies on the floor of a tile that is
\* not WATER.
restsOnFloor ==
    LET t == tileMapGet(level, MathRound(ballState.position.x),
                        MathRound(ballState.position.z))
    IN  /\ ballState.velocity = ZeroVec
        /\ t.present
        /\ t.type # "WATER"
        /\ ballState.position.y = t.height

\* C18: rest is horizontally stable.  From a ball with velocity (0, 0, 0)
\* that lies on the floor of a tile that is not WATER, any number of repeated
\* physics steps, with any dt, leaves x and z of the position unchanged.
C18_RestIsStable ==
    restsOnFloor
      => \A dt \in PhysDts :
           staysAt(ballState.position, ballState.velocity, RestSteps, dt, level,
                   ballState.position.x, ballState.position.z)

\* The OBSTACLE tiles of level lv.
obstaclesOf(lv) == {tileMapGet(lv, c[1], c[2]) : c \in rockTiles(lv)}

\* newVel and newPos of calculateNextState(pos, vel, dt, ...) after the
\* integration, before the obstacle scan.
integrated(pos, vel, dt) ==
    LET newVel == addVectors(vel, scaleVector(forces(vel), dt))
    IN  [pos |-> addVectors(pos, scaleVector(newVel, dt)), vel |-> newVel]

\* The horizontal collision normal (nx, nz) of the scan for a ball at p and
\* the obstacle obs, in 1/Scale.
collisionNormal(p, obs) ==
    LET dx == p.x - obs.x * Scale
        dz == p.z - obs.z * Scale
        dist == ISqrt(dx * dx + dz * dz)
    IN  [x |-> IF dist > 0 THEN RoundDiv(dx * Scale, dist) ELSE Scale,
         z |-> IF dist > 0 THEN RoundDiv(dz * Scale, dist) ELSE 0]

\* const dot = newVel.x * nx + newVel.z * nz
along(v, n) == RoundDiv(v.x * n.x + v.z * n.z, Scale)

\* The square of the horizontal distance of p from the centre of obs.
centreDistSq(p, obs) ==
    (p.x - obs.x * Scale) * (p.x - obs.x * Scale)
    + (p.z - obs.z * Scale) * (p.z - obs.z * Scale)

\* The speed into the obstacle from which the ball counts as moving into it:
\* 0.01, ten units of the fixed point.
IntoSpeed == 10

\* The step from the ball's state with dt takes the ball within the collider
\* radius of obs alone, no higher than its height + 3, moving into it.
hitsOnly(obs, dt) ==
    LET m == integrated(ballState.position, ballState.velocity, dt)
    IN  /\ m.pos.y <= obs.height + 3 * Scale
        /\ centreDistSq(m.pos, obs) < (450 + ballRadius) * (450 + ballRadius)
        /\ along(m.vel, collisionNormal(m.pos, obs)) <= -IntoSpeed
        /\ beforeGround(ballState.position, ballState.velocity, dt, level)
             = collideWith(m, obs)

\* What the step with dt returns, for a ball that hits obs alone: the
\* velocity along the collision normal before and after, the horizontal
\* velocity left, and the square of the distance from the centre of obs.
hitOutcome(obs, dt) ==
    LET m == integrated(ballState.position, ballState.velocity, dt)
        n == collisionNormal(m.pos, obs)
        r == calculateNextState(ballState.position, ballState.velocity, dt, level)
    IN  [before |-> along(m.vel, n), after |-> along(r.vel, n),
         stopped |-> r.vel.x = 0 /\ r.vel.z = 0,
         distSq |-> centreDistSq(r.pos, obs)]

\* C19 as amended: when the ball passes within the collider radius of a
\* single OBSTACLE no higher than its height + 3, moving into it, then after
\* the step the velocity along the horizontal collision normal is smaller in
\* magnitude than before and either has the opposite sign or is zero because
\* the ground response of the same step left no horizontal velocity, and the
\* ball is at least the collider radius away from the obstacle's centre.
C19_BounceOrStop ==
    \A dt \in PhysDts : \A obs \in obstaclesOf(level) :
      hitsOnly(obs, dt)
        => LET h == hitOutcome(obs, dt)
           IN  /\ h.after > 0 \/ (h.after = 0 /\ h.stopped)
               /\ h.after < -h.before
               /\ h.distSq >= (450 + ballRadius) * (450 + ballRadius)

\* C19 as stated: after the step the velocity along the horizontal collision
\* normal has the opposite sign and a strictly smaller magnitude than before,
\* and the ball is at least the collider radius away from the centre.
C19_BounceReverses ==
    \A dt \in PhysDts : \A obs \in obstaclesOf(level) :
      hitsOnly(obs, dt)
        => LET h == hitOutcome(obs, dt)
           IN  /\ h.after > 0
               /\ h.after < -h.before
               /\ h.distSq >= (450 + ballRadius) * (450 + ballRadius)

\* A ball that has been stepped towards a rock hits it alone on its next
\* sub-step and comes back from it with a part of its speed.
C19_Witness ==
    /\ ballState.position # ballState.lastStablePosition
    /\ \E obs \in obstaclesOf(level) :
         /\ hitsOnly(obs, subDt)
         /\ hitOutcome(obs, subDt).after > 0
         /\ hitOutcome(obs, subDt).after < -hitOutcome(obs, subDt).before

\* The ball lies still on the surface of a GREEN tile at height 0.
onFlatGreen ==
    LET t == tileMapGet(level, MathRound(ballState.position.x),
                        MathRound(ballState.position.z))
    IN  /\ t.present /\ t.type = "GREEN" /\ t.height = 0
        /\ ballState.position.y = 0
        /\ ballState.velocity = ZeroVec

\* The launch velocity (10, 15, 0) of the scenario.
scenarioLaunch == Vec(10 * Scale, 15 * Scale, 0)

\* C20: with gravity 35, dragAir 0.8 and the predictor's dt = 0.05, a launch
\* with velocity (10, 15, 0) from the surface of flat GREEN at height 0 has a
\* predicted maxHeight within 15% of the drag-free v_y^2 / (2 * gravity)
\* = 225/70: |70 * maxHeight - 225| <= 0.15 * 225.
C20_MaxHeightNearDragFree ==
    onFlatGreen
      => LET maxHeight == calculateTrajectoryData(ballState.position,
                              scenarioLaunch, level, guideLines("drive")).maxHeight
         IN  /\ gravity = 35 * Scale
             /\ dragAir = 800
             /\ 100 * Abs(2 * (gravity \div Scale) * maxHeight
                          - 15 * 15 * Scale) <= 15 * 15 * 15 * Scale

\* The ball has velocity (0, 0, 0), is above the floor of the tile under it
\* (-10 where there is none), and the step with dt does not bring it down to
\* that floor.
hangsAbove(dt) ==
    LET floor == floorOf(tileMapGet(level, MathRound(ballState.position.x),
                                    MathRound(ballState.position.z)))
    IN  /\ ballState.velocity = ZeroVec
        /\ ballState.position.y > floor
        /\ integrated(ballState.position, ballState.velocity, dt).pos.y > floor

\* What calculateNextState returns for a ball in free fall from rest: the
\* velocity (0, -gravity * dt, 0), a lower y, the same x and z, no event.
fallsFreely(r, dt) ==
    /\ r.vel = Vec(0, RoundDiv(-gravity * dt, TimeScale), 0)
    /\ r.vel.y < 0
    /\ r.pos.y < ballState.position.y
    /\ r.pos.x = ballState.position.x
    /\ r.pos.z = ballState.position.z
    /\ r.collision = "NONE"

\* C21: for a ball with zero velocity that is above the floor and does not
\* reach it within the step, one physics step returns the vertical velocity
\* -gravity * dt (negative), a y strictly below the starting y, unchanged x
\* and z, and no event.
C21_FreeFallStep ==
    \A dt \in PhysDts :
      hangsAbove(dt)
        => fallsFreely(calculateNextState(ballState.position, ballState.velocity,
                                          dt, level), dt)

\* The ball has been stepped once from rest on its start, 0.15 above the
\* green: it is still above the green, as far below the start as one
\* sub-step of free fall takes it, and falls with -gravity * subDt.
C21_Witness ==
    /\ ballState.lastStablePosition = startPosition(level)
    /\ ballState.velocity = Vec(0, RoundDiv(-gravity * subDt, TimeScale), 0)
    /\ ballState.position.x = startPosition(level).x
    /\ ballState.position.z = startPosition(level).z
    /\ ballState.position.y < startPosition(level).y
    /\ ballState.position.y
         = startPosition(level).y
           + RoundDiv(RoundDiv(-gravity * subDt, TimeScale) * subDt, TimeScale)
    /\ ballState.position.y > 0

\* The settled backstop of predictTrajectory, for the result r of the step
\* of iteration i and the floor under the pre-step position.
settledBackstop(i, r, floor) == r.pos.y <= floor /\ Abs(r.vel.y) < 100 /\ i > 0

\* What the iteration from st made of the loop state (next), if the
\* first-touchdown stop fires exactly when the stepped position r.pos is at
\* most slack above floor and the pre-step vertical velocity is negative:
\* then the landing point is recorded with y = floor and the loop halts;
\* otherwise the stepped position is recorded and the loop goes on unless the
\* settled backstop halts it.
stopRule(slack, st, r, floor, next) ==
    IF r.pos.y <= floor + slack /\ st.vel.y < 0
    THEN /\ next.done
         /\ next.path = Append(st.path, [r.pos EXCEPT !.y = floor])
    ELSE /\ next.path = Append(st.path, r.pos)
         /\ next.pos = r.pos
         /\ next.vel = r.vel
         /\ next.done <=> settledBackstop(st.i, r, floor)

\* The for loop of predictTrajectory with a record of whether stopRule held
\* in every iteration run so far: c = [st, ok].
watchedIteration(c, slack, lv, steps, dt) ==
    IF c.st.done \/ c.st.i >= steps THEN c
    ELSE [st |-> predictIteration(c.st, lv, steps, dt),
          ok |-> c.ok /\ stopRule(
                            slack, c.st,
                            calculateNextState(c.st.pos, c.st.vel, dt, lv),
                            heightOrZero(tileMapGet(lv, MathRound(c.st.pos.x),
                                                    MathRound(c.st.pos.z))),
                            predictIteration(c.st, lv, steps, dt))]

RECURSIVE watchedLoop(_, _, _, _, _, _)
watchedLoop(c, n, slack, lv, steps, dt) ==
    IF n <= 0 \/ c.st.done \/ ~c.ok THEN c
    ELSE IF n = 1 THEN watchedIteration(c, slack, lv, steps, dt)
    ELSE watchedLoop(watchedLoop(c, n \div 2, slack, lv, steps, dt),
                     n - n \div 2, slack, lv, steps, dt)

\* The launch velocities the predictor is asked about: those of the drags,
\* and the launch of the scenario.
Launches == {calculateShotPhysics(d).velocity : d \in Drags} \cup {scenarioLaunch}

\* The ball lies still where the program aims from: on the floor of a tile
\* that is not WATER, or on the start of the level.
liesToAim ==
    /\ ballState.velocity = ZeroVec
    /\ (restsOnFloor \/ ballState.position = startPosition(level))

\* The predictor run from the ball with the launch velocity v keeps
\* stopRule with slack in every iteration.
stopsWithin(slack, v) ==
    watchedLoop([st |-> PredictState(0, ballState.position, v,
                                     <<ballState.position>>, FALSE),
                 ok |-> TRUE],
                guideLines("drive"), slack, level, guideLines("drive"),
                predictorDt).ok

StepCounts == {0, 1, 3, guideLines("approach")}

\* What calculateTrajectoryData returned (t) for the start startPos and
\* maxSteps: a path from startPos of at most maxSteps + 1 points, the
\* duration (length - 1) * dt of at most maxSteps * dt (in ms, dt = 50 ms),
\* a maxHeight that no point and not the start is above, and the horizontal
\* distance from the start to the last point as range.
wellFormedTrajectory(t, startPos, maxSteps) ==
    /\ Len(t.points) >= 1
    /\ t.points[1] = startPos
    /\ Len(t.points) <= maxSteps + 1
    /\ t.duration = (Len(t.points) - 1) * 50
    /\ t.duration <= maxSteps * 50
    /\ t.maxHeight >= startPos.y
    /\ \A k \in 1..Len(t.points) : t.maxHeight >= t.points[k].y
    /\ \E k \in 1..Len(t.points) :
         t.maxHeight = t.points[k].y \/ t.maxHeight = startPos.y
    /\ LET last == t.points[Len(t.points)]
       IN  t.range = ISqrt((last.x - startPos.x) * (last.x - startPos.x)
                           + (last.z - startPos.z) * (last.z - startPos.z))

\* C23: for every start state, terrain and maxSteps >= 0 the predictor
\* terminates and returns a non-empty path whose first element is the start
\* position and whose length is at most maxSteps + 1; the duration is
\* (length - 1) * dt <= maxSteps * dt, maxHeight is >= the start y and >= the
\* y of every point, and range is the horizontal distance from the start to
\* the last point.
C23_PredictorBounded ==
    \A v \in Launches \cup {ballState.velocity} : \A n \in StepCounts :
      wellFormedTrajectory(
          calculateTrajectoryData(ballState.position, v, level, n),
          ballState.position, n)

\* Over a ball that was stepped to rest, the aim preview of a full drive has
\* been computed; the trajectory of that drive ends before maxSteps, and cut
\* to three steps it has all its four points.
C23_Witness ==
    /\ liesToAim
    /\ ballState.position # ballState.lastStablePosition
    /\ dragCurrent = "drive"
    /\ LET t == calculateTrajectoryData(ballState.position,
                                         calculateShotPhysics("drive").velocity,
                                         level, guideLines("drive"))
           cut == calculateTrajectoryData(ballState.position,
                                          calculateShotPhysics("drive").velocity,
                                          level, 3)
       IN  /\ Len(t.points) > 4
           /\ Len(t.points) < guideLines("drive") + 1
           /\ t.maxHeight > ballState.position.y
           /\ t.range > 0
           /\ Len(cut.points) = 4

\* The step is a frame tick: updatePhysics ran.
FrameTick == sinceLastTime # 0 /\ sinceLastTime' = 0

\* The ball the k-th iteration recorded in log started from, in a frame that
\* found the ball prev.
ballBefore(log, k, prev) == IF k = 1 THEN prev ELSE log[k - 1].after

\* The record log of the iterations of one frame over the ball prev, with
\* the frame delta dtMs (in ms): at most 8 iterations; every physics step is
\* calculateNextState on the ball the iteration before it left, with
\* dt = dtMs / 8; an iteration is only run on a ball that moves and is not
\* holed; the void guard takes no physics step; and the iteration that stops
\* the ball (void guard, WATER, rest detection, hole capture) is the last.
frameInSequence(log, prev, dtMs, lv) ==
    /\ Len(log) <= 8
    /\ \A k \in 1..Len(log) :
         /\ ballBefore(log, k, prev).isMoving
         /\ ~ballBefore(log, k, prev).inHole
         /\ log[k].kind \in {"STEP", "VOID"}
         /\ log[k].kind = "VOID"
              => /\ ballBefore(log, k, prev).position.y < -10 * Scale
                 /\ ~log[k].after.isMoving
         /\ log[k].kind = "STEP"
              => [pos |-> log[k].pos, vel |-> log[k].vel,
                  collision |-> log[k].collision]
                 = calculateNextState(ballBefore(log, k, prev).position,
                                      ballBefore(log, k, prev).velocity,
                                      ((dtMs * TimeScale) \div 1000) \div 8, lv)
         /\ (\/ ~log[k].after.isMoving
             \/ log[k].after.inHole
             \/ log[k].collision = "WATER"
             \/ log[k].kind = "VOID") => k = Len(log)
    /\ Len(log) < 8 => Len(log) > 0 /\ ~log[Len(log)].after.isMoving

\* C24: in one frame the sub-step loop calls the physics step at most 8
\* times, each with dt = min(frame delta, 0.1) / 8, strictly in sequence; as
\* soon as a sub-step stops the ball (void guard, WATER event, rest
\* detection or hole capture) no further physics step is executed in that
\* frame; and a frame in which the ball is not moving (or the game is
\* paused) executes none and leaves BallState as it is.
C24_SubStepsInSequence ==
    [][ FrameTick
        => IF sinceLastTime > 0 /\ ~isPaused /\ ballState.isMoving
           THEN LET dtMs == IF sinceLastTime > 100 THEN 100 ELSE sinceLastTime
                    f == stepFrame(ballState, dtMs, level)
                IN  /\ frameInSequence(f.log, ballState, dtMs, level)
                    /\ ballState' = f.log[Len(f.log)].after
           ELSE ballState' = ballState
      ]_vars

\* A shot is on its way, frames have moved the ball, and the frame that comes
\* next stops it by rest detection in a sub-step that is not its first and
\* not its last.
C24_Witness ==
    /\ gamePhase = "EXECUTING"
    /\ ballState.isMoving
    /\ ~isPaused
    /\ ballState.position # ballState.lastStablePosition
    /\ LET f == stepFrame(ballState, MaxDeltaMs, level)
       IN  /\ Len(f.log) > 1
           /\ Len(f.log) < 8
           /\ ~f.ball.isMoving
           /\ ~f.ball.inHole
           /\ f.log[Len(f.log)].collision = "NONE"

\* C25: lives is within 0..STARTING_LIVES in every reachable state: never
\* negative and never above 5.
C25_LivesInRange == lives \in 0..STARTING_LIVES

\* C26: isMoving = TRUE implies the phase EXECUTING in every reachable state.
C26_MovingOnlyWhileExecuting == ballState.isMoving => gamePhase = "EXECUTING"

\* A shot is in flight: frames have moved the ball away from where it was
\* played, and it still moves.
C26_Witness ==
    /\ ballState.isMoving
    /\ gamePhase = "EXECUTING"
    /\ ballState.position # ballState.lastStablePosition
    /\ ballState.velocity # ZeroVec

\* The floor under the position p on level lv: the height of the tile under
\* it, -10 where there is none.
floorUnder(p, lv) == floorOf(tileMapGet(lv, MathRound(p.x), MathRound(p.z)))

C28_ContactNeverDownward ==
    \A dt \in PhysDts :
        landsOnGround(dt)
        => calculateNextState(ballState.position, ballState.velocity,
                              dt, level).vel.y >= 0

\* The obstacle obs is one the scan of a step visits: within checkRadius
\* cells of the cell of the integrated position m.
scanned(obs, m) ==
    /\ Abs(obs.x - MathRound(m.x)) <= checkRadius
    /\ Abs(obs.z - MathRound(m.z)) <= checkRadius

\* The position p is outside the circle of radius reach around every
\* obstacle of level lv that the scan from m visits and that p is not
\* flying over (p.y <= height + 3).
clearOfObstacles(p, m, reach, lv) ==
    \A obs \in obstaclesOf(lv) :
        (scanned(obs, m) /\ p.y <= obs.height + 3 * Scale)
        => centreDistSq(p, obs) >= reach * reach

\* C29: after a physics step the ball lies outside the collider (collider
\* radius 0.45 plus ballRadius) of every TREE / OBSTACLE tile within the
\* 2-cell scan radius that it is not flying over, also where several
\* obstacle tiles are adjacent and the ball is pushed out of each in turn.
C29_OutsideEveryCollider ==
    \A dt \in PhysDts :
        clearOfObstacles(
            calculateNextState(ballState.position, ballState.velocity,
                               dt, level).pos,
            integrated(ballState.position, ballState.velocity, dt).pos,
            450 + ballRadius, level)

\* The dt the system passes to the physics step: the live sub-step of a
\* frame of the longest delta, and the predictor's.
SystemDts == {subDt, predictorDt}

\* The ball is on the floor of a tile that is not WATER, with no vertical
\* velocity, and the step with dt ends in ground contact on a tile of the
\* same kind.
inRestingContact(dt) ==
    LET t == tileMapGet(level, MathRound(ballState.position.x),
                        MathRound(ballState.position.z))
    IN  /\ t.present /\ t.type # "WATER"
        /\ ballState.position.y = t.height
        /\ ballState.velocity.y = 0
        /\ landsOnGround(dt)

\* C30: resting ground contact is stable for every dt the system passes to
\* the physics step (the live sub-steps and the predictor's 0.05): for a ball
\* on the floor of a non-WATER tile with zero vertical velocity, one step
\* returns vertical velocity 0 with y at the floor and the horizontal
\* velocity under rolling ground friction with the tile's coefficient, not a
\* bounce with the (1 - dt) drag.
C30_RestingContactStable ==
    \A dt \in SystemDts :
        inRestingContact(dt)
        => LET b == beforeGround(ballState.position, ballState.velocity,
                                 dt, level)
               t == tileMapGet(level, MathRound(b.pos.x), MathRound(b.pos.z))
               r == calculateNextState(ballState.position, ballState.velocity,
                                       dt, level)
           IN  /\ r.vel.y = 0
               /\ r.pos.y = floorOf(t)
               /\ r.vel = rolled(b.vel, magnitude(Vec(b.vel.x, 0, b.vel.z)),
                                 RoundDiv(Mul(gravity, getFrictionForTile(t.type))
                                          * dt, TimeScale))

====
